---- MODULE Spec2Model ----
(***************************************************************************)
(* Stock-Assistant: the LangGraph workflow of src/src/agent/agent.py.      *)
(*                                                                         *)
(* stock_graph:  START -> stock_name <-> stock_name_tools                  *)
(*                        stock_name -> continue_to_analyses               *)
(*                        continue_to_analyses -> make_decision -> END     *)
(* fsubgraph:    START -> fundamental_analysis <-> fundamental_analysis_tools, -> END *)
(* tsubgraph:    START -> technical_analysis  <-> technical_analysis_tools,  -> END *)
(*                                                                         *)
(* A graph state is a Python dict: a function whose DOMAIN is the set of   *)
(* keys that have been written.  Text is a sequence of string fragments,   *)
(* so that str.format and f-strings are concatenations.                    *)
(***************************************************************************)
EXTENDS Integers, Sequences, FiniteSets, TLC

\* ------------------------------------------------------------------ bounds
\* Tool-requesting model responses allowed in one run (all loops together).
MaxRounds == 2

\* ------------------------------------------------------ prompts and inputs
FUNDAMENTAL_ANALYSIS_SYSTEM_PROMPT == <<"Perform a fundamental analysis of the stock.">>
TECHNICAL_ANALYSIS_SYSTEM_PROMPT == <<"Perform a technical analysis of the stock.">>
STOCK_NAME_SYSTEM_PROMPT == <<"Get the name of the stock to analyze.">>

\* DECISION_SYSTEM_PROMPT.format(fundamental_analysis=, technical_analysis=, stock_name=)
DECISION_SYSTEM_PROMPT(fundamental_analysis, technical_analysis, stock_name) ==
    <<"Based on the fundamental analysis: ">> \o fundamental_analysis
      \o <<"And technical analysis: ">> \o technical_analysis
      \o <<"Make a buy, sell, or hold decision for ">> \o stock_name \o <<".">>

\* The tools loaded from the MCP client.
tools == {"perplexity_ask", "perplexity_research", "perplexity_reason"}

\* The tool_calls lists a model response may carry: one call, or several.
ToolCallLists ==
    { <<"perplexity_ask">>,
      <<"perplexity_research", "perplexity_reason">> }

\* Texts the external collaborators may answer with.
UserTexts == { <<"Analyze Reliance Industries">> }
NameTexts == { <<"Reliance Industries Ltd. (NSE:RELIANCE)">>,
               <<"Tata Motors Ltd. (NSE:TATAMOTORS)">> }
FundamentalTexts == { <<"Strong revenue growth">>, <<"Weak margins">> }
TechnicalTexts == { <<"Bullish breakout">>, <<"Bearish divergence">> }
DecisionTexts == { <<"buy">>, <<"sell">>, <<"hold">>, <<"wait and see">> }
ToolResults == { <<"search result">>, <<"no results found">> }

Loops == {"stock_name", "fundamental_analysis", "technical_analysis"}
Models == Loops \cup {"make_decision"}

VARIABLES
    state,         \* State of stock_graph (dict)
    pc,            \* node stock_graph runs next
    fstate,        \* FundamentalAnalysisState of the running fsubgraph
    fpc,           \* node fsubgraph runs next
    tstate,        \* TechnicalAnalysisState of the running tsubgraph
    tpc,           \* node tsubgraph runs next
    invocations,   \* per model node: ainvoke calls made
    toolRounds,    \* per loop: ToolNode executions
    prompt,        \* per model node: the message list of the last ainvoke
    completed      \* the subgraphs that reached END, in the order they did

vars == <<state, pc, fstate, fpc, tstate, tpc, invocations, toolRounds, prompt, completed>>

\* ---------------------------------------------------------------- messages
MessageId(src, n, k) == [src |-> src, n |-> n, k |-> k]

\* {"role": ..., "content": ...} dicts the nodes build for the prompt.
PromptMessage(role, content) ==
    [id |-> MessageId("prompt", 0, 0), type |-> role, content |-> content,
     tool_calls |-> <<>>, name |-> "", tool_call_id |-> 0]

\* The seed message of the workflow entry point.
HumanMessage(content) ==
    [id |-> MessageId("user", 0, 0), type |-> "human", content |-> content,
     tool_calls |-> <<>>, name |-> "", tool_call_id |-> 0]

\* The n-th response of the model called by node src.
AIMessage(src, n, content, tool_calls) ==
    [id |-> MessageId(src, n, 0), type |-> "ai", content |-> content,
     tool_calls |-> tool_calls, name |-> "", tool_call_id |-> 0]

\* The result of the k-th tool call of response ai.
ToolMessage(ai, k, content) ==
    [id |-> MessageId(ai.id.src, ai.id.n, k), type |-> "tool", content |-> content,
     tool_calls |-> <<>>, name |-> ai.tool_calls[k], tool_call_id |-> k]

\* hasattr(response, "tool_calls"): only AI messages carry the attribute.
HasToolCalls(m) == m.type = "ai" /\ Len(m.tool_calls) > 0

\* {}
EmptyDict == [key \in {} |-> <<>>]

\* dict.get(key, default)
Get(d, key, default) == IF key \in DOMAIN d THEN d[key] ELSE default

\* Mutant of add_messages: the messages channel declared without its reducer
\* (a plain list), so every update overwrites the list.
add_messages_overwrite(left, right) == right

\* Mutant of add_messages: new messages are put in front of the list.
add_messages_prepend(left, right) == right \o left

\* langgraph add_messages reducer, right merged into left one message at a
\* time: a message whose id is already in the list replaces that entry in
\* place, any other message is appended.
add_messages(left, right) ==
    LET \* the last message of right with the id of m, or m itself
        Latest(m) ==
            LET js == { j \in 1..Len(right) : right[j].id = m.id }
            IN IF js = {} THEN m
               ELSE right[CHOOSE j \in js : \A j2 \in js : j2 <= j]
        known == { left[i].id : i \in 1..Len(left) }
        \* the messages of right that open a new entry
        fresh == { j \in 1..Len(right) :
                     /\ right[j].id \notin known
                     /\ \A j2 \in 1..(j - 1) : right[j2].id # right[j].id }
        New[j \in 0..Len(right)] ==
            IF j = 0 THEN <<>>
            ELSE IF j \in fresh THEN Append(New[j - 1], Latest(right[j]))
            ELSE New[j - 1]
    IN [i \in 1..Len(left) |-> Latest(left[i])] \o New[Len(right)]

\* A node's returned dict applied to the graph state: the messages channel
\* goes through its reducer, every other key is overwritten.
ApplyUpdate(st, update) ==
    [key \in DOMAIN st \cup DOMAIN update |->
        IF key = "messages"
        THEN add_messages(Get(st, "messages", <<>>), Get(update, "messages", <<>>))
        ELSE IF key \in DOMAIN update THEN update[key] ELSE st[key]]

Messages(st) == Get(st, "messages", <<>>)
Last(s) == s[Len(s)]

\* langgraph.prebuilt.tools_condition on the state a node left behind.
tools_condition(st) ==
    IF Messages(st) # <<>> /\ HasToolCalls(Last(Messages(st)))
    THEN "tools" ELSE "__end__"

\* Mutant of ToolNode: only the first requested call is executed.
ToolNode_first_call_only(st, results) ==
    LET ai == Last(Messages(st))
    IN [messages |-> <<ToolMessage(ai, 1, results[1])>>]

\* Mutant of ToolNode: the results are appended last call first.
ToolNode_reversed(st, results) ==
    LET ai == Last(Messages(st))
        n == Len(ai.tool_calls)
    IN [messages |-> [k \in 1..n |-> ToolMessage(ai, n + 1 - k, results[n + 1 - k])]]

\* ToolNode(tools=tools): one ToolMessage per call of the last AI message,
\* in the order of the calls.
ToolNode(st, results) ==
    LET ai == Last(Messages(st))
    IN [messages |-> [k \in 1..Len(ai.tool_calls) |-> ToolMessage(ai, k, results[k])]]

\* Tool-requesting responses issued so far in this run.
Requested ==
    toolRounds["stock_name"] + toolRounds["fundamental_analysis"]
      + toolRounds["technical_analysis"]
      + (IF pc = "stock_name_tools" THEN 1 ELSE 0)
      + (IF fpc = "fundamental_analysis_tools" THEN 1 ELSE 0)
      + (IF tpc = "technical_analysis_tools" THEN 1 ELSE 0)

\* What llms_with_tools.ainvoke may return on the n-th call of node src.
Responses(src, n, texts) ==
    { AIMessage(src, n, c, <<>>) : c \in texts }
      \cup (IF Requested < MaxRounds
            THEN { AIMessage(src, n, <<>>, calls) : calls \in ToolCallLists }
            ELSE {})

\* What the tools may return for the calls of the last AI message.
ResultLists(st) ==
    [1..Len(Last(Messages(st)).tool_calls) -> ToolResults]

Init ==
    /\ \E text \in UserTexts : state = [messages |-> <<HumanMessage(text)>>]
    /\ pc = "stock_name"
    /\ fstate = EmptyDict
    /\ fpc = "idle"
    /\ tstate = EmptyDict
    /\ tpc = "idle"
    /\ invocations = [m \in Models |-> 0]
    /\ toolRounds = [l \in Loops |-> 0]
    /\ prompt = [m \in Models |-> <<>>]
    /\ completed = <<>>

\* ------------------------------------------------------------ the nodes
\* get_fundamental_analysis: the prompt it sends, and the dict it returns.
fundamental_messages_with_prompt(st) ==
    << PromptMessage("system", FUNDAMENTAL_ANALYSIS_SYSTEM_PROMPT),
       PromptMessage("user", <<"The stock to analyze is ">> \o st["stock_name"]) >>
      \o Messages(st)

\* Mutant of get_fundamental_analysis: the output is stored on every response.
get_fundamental_analysis_always_sets(response) ==
    [fundamental_analysis |-> response.content, messages |-> <<response>>]

get_fundamental_analysis(response) ==
    IF ~HasToolCalls(response)
    THEN [fundamental_analysis |-> response.content, messages |-> <<response>>]
    ELSE [messages |-> <<response>>]

\* get_technical_analysis
technical_messages_with_prompt(st) ==
    << PromptMessage("system", TECHNICAL_ANALYSIS_SYSTEM_PROMPT),
       PromptMessage("user", <<"The stock to analyze is ">> \o st["stock_name"]) >>
      \o Messages(st)

\* Mutant of get_technical_analysis: the tool-call test is inverted.
get_technical_analysis_inverted(response) ==
    IF HasToolCalls(response)
    THEN [technical_analysis |-> response.content, messages |-> <<response>>]
    ELSE [messages |-> <<response>>]

get_technical_analysis(response) ==
    IF ~HasToolCalls(response)
    THEN [technical_analysis |-> response.content, messages |-> <<response>>]
    ELSE [messages |-> <<response>>]

\* get_stock_name
stock_name_messages_with_prompt(st) ==
    << PromptMessage("system", STOCK_NAME_SYSTEM_PROMPT) >> \o st["messages"]

get_stock_name(response) ==
    IF ~HasToolCalls(response)
    THEN [stock_name |-> response.content, messages |-> <<response>>]
    ELSE [messages |-> <<response>>]

\* Mutant of continue_to_analyses: the histories are merged in the order the
\* subgraphs completed.
continue_to_analyses_completion_order(fundamental_result, technical_result) ==
    [fundamental_analysis |-> fundamental_result["fundamental_analysis"],
     technical_analysis |-> technical_result["technical_analysis"],
     messages |-> IF completed # <<>> /\ completed[1] = "technical_analysis"
                  THEN technical_result["messages"] \o fundamental_result["messages"]
                  ELSE fundamental_result["messages"] \o technical_result["messages"]]

\* continue_to_analyses, after asyncio.gather returned both results.
continue_to_analyses(fundamental_result, technical_result) ==
    [fundamental_analysis |-> fundamental_result["fundamental_analysis"],
     technical_analysis |-> technical_result["technical_analysis"],
     messages |-> fundamental_result["messages"] \o technical_result["messages"]]

\* Mutant of decision_prompt: the defaults are empty strings.
decision_prompt_empty_defaults(st) ==
    DECISION_SYSTEM_PROMPT(Get(st, "fundamental_analysis", <<"">>),
                           Get(st, "technical_analysis", <<"">>),
                           Get(st, "stock_name", <<"">>))

\* make_decision
decision_prompt(st) ==
    DECISION_SYSTEM_PROMPT(Get(st, "fundamental_analysis", <<"Not available">>),
                           Get(st, "technical_analysis", <<"Not available">>),
                           Get(st, "stock_name", <<"Unknown">>))

\* Mutant of make_decision: the text is forced into the declared Literal.
make_decision_validated(response) ==
    [decision |-> IF response.content \in {<<"buy">>, <<"sell">>, <<"hold">>}
                  THEN response.content ELSE <<"hold">>,
     messages |-> <<response>>]

make_decision(response) ==
    [decision |-> response.content, messages |-> <<response>>]

\* ------------------------------------------------------------ the edges
\* fsubgraphbuilder.add_conditional_edges("fundamental_analysis", tools_condition, ...)
fundamental_analysis_edge(st) ==
    IF tools_condition(st) = "tools" THEN "fundamental_analysis_tools" ELSE "__end__"

\* tsubgraphbuilder.add_conditional_edges("technical_analysis", tools_condition, ...)
technical_analysis_edge(st) ==
    IF tools_condition(st) = "tools" THEN "technical_analysis_tools" ELSE "__end__"

\* Mutant of stock_name_edge: a plain edge to the Aggregator instead of the
\* conditional one.
stock_name_edge_unconditional(st) == "continue_to_analyses"

\* Mutant of stock_name_edge: the loop is cut after one tool round.
stock_name_edge_capped(st) ==
    IF tools_condition(st) = "tools" /\ toolRounds["stock_name"] < 1
    THEN "stock_name_tools" ELSE "continue_to_analyses"

\* graph_builder.add_conditional_edges("stock_name", tools_condition, ...)
stock_name_edge(st) ==
    IF tools_condition(st) = "tools" THEN "stock_name_tools" ELSE "continue_to_analyses"

\* graph_builder.add_edge("stock_name_tools", "stock_name")
stock_name_tools_edge == "stock_name"

\* Mutant of continue_to_analyses_edge: the Aggregator is wired to END.
continue_to_analyses_edge_end == "__end__"

\* graph_builder.add_edge("continue_to_analyses", "make_decision")
continue_to_analyses_edge == "make_decision"

\* Mutant of make_decision_edge: the decision leads back to name resolution.
make_decision_edge_back == "stock_name"

\* graph_builder.add_edge("make_decision", END)
make_decision_edge == "__end__"

\* ------------------------------------------------- stock_graph: name loop
\* Node stock_name, then the conditional edge on tools_condition.
StockName ==
    /\ pc = "stock_name"
    /\ invocations' = [invocations EXCEPT !["stock_name"] = @ + 1]
    /\ prompt' = [prompt EXCEPT !["stock_name"] = stock_name_messages_with_prompt(state)]
    /\ \E response \in Responses("stock_name", invocations["stock_name"] + 1, NameTexts) :
          /\ state' = ApplyUpdate(state, get_stock_name(response))
          /\ pc' = stock_name_edge(state')
    /\ UNCHANGED <<fstate, fpc, tstate, tpc, toolRounds, completed>>

\* llms_with_tools.ainvoke raises inside stock_name: the run fails.
StockNameRaises ==
    /\ pc = "stock_name"
    /\ invocations' = [invocations EXCEPT !["stock_name"] = @ + 1]
    /\ prompt' = [prompt EXCEPT !["stock_name"] = stock_name_messages_with_prompt(state)]
    /\ pc' = "raised"
    /\ UNCHANGED <<state, fstate, fpc, tstate, tpc, toolRounds, completed>>

\* Node stock_name_tools, then the edge back to stock_name.
StockNameTools ==
    /\ pc = "stock_name_tools"
    /\ \E results \in ResultLists(state) :
          state' = ApplyUpdate(state, ToolNode(state, results))
    /\ toolRounds' = [toolRounds EXCEPT !["stock_name"] = @ + 1]
    /\ pc' = stock_name_tools_edge
    /\ UNCHANGED <<fstate, fpc, tstate, tpc, invocations, prompt, completed>>

StockNameToolsRaises ==
    /\ pc = "stock_name_tools"
    /\ toolRounds' = [toolRounds EXCEPT !["stock_name"] = @ + 1]
    /\ pc' = "raised"
    /\ UNCHANGED <<state, fstate, fpc, tstate, tpc, invocations, prompt, completed>>

\* ------------------------------------------------------------- fsubgraph
FundamentalAnalysis ==
    /\ fpc = "fundamental_analysis"
    /\ invocations' = [invocations EXCEPT !["fundamental_analysis"] = @ + 1]
    /\ prompt' = [prompt EXCEPT !["fundamental_analysis"] =
                                   fundamental_messages_with_prompt(fstate)]
    /\ \E response \in Responses("fundamental_analysis",
                                 invocations["fundamental_analysis"] + 1, FundamentalTexts) :
          /\ fstate' = ApplyUpdate(fstate, get_fundamental_analysis(response))
          /\ fpc' = fundamental_analysis_edge(fstate')
    /\ completed' = IF fpc' = "__end__"
                    THEN Append(completed, "fundamental_analysis") ELSE completed
    /\ UNCHANGED <<state, pc, tstate, tpc, toolRounds>>

FundamentalAnalysisRaises ==
    /\ fpc = "fundamental_analysis"
    /\ invocations' = [invocations EXCEPT !["fundamental_analysis"] = @ + 1]
    /\ prompt' = [prompt EXCEPT !["fundamental_analysis"] =
                                   fundamental_messages_with_prompt(fstate)]
    /\ fpc' = "raised"
    /\ UNCHANGED <<state, pc, fstate, tstate, tpc, toolRounds, completed>>

FundamentalAnalysisTools ==
    /\ fpc = "fundamental_analysis_tools"
    /\ \E results \in ResultLists(fstate) :
          fstate' = ApplyUpdate(fstate, ToolNode(fstate, results))
    /\ toolRounds' = [toolRounds EXCEPT !["fundamental_analysis"] = @ + 1]
    /\ fpc' = "fundamental_analysis"
    /\ UNCHANGED <<state, pc, tstate, tpc, invocations, prompt, completed>>

FundamentalAnalysisToolsRaises ==
    /\ fpc = "fundamental_analysis_tools"
    /\ toolRounds' = [toolRounds EXCEPT !["fundamental_analysis"] = @ + 1]
    /\ fpc' = "raised"
    /\ UNCHANGED <<state, pc, fstate, tstate, tpc, invocations, prompt, completed>>

\* ------------------------------------------------------------- tsubgraph
TechnicalAnalysis ==
    /\ tpc = "technical_analysis"
    /\ invocations' = [invocations EXCEPT !["technical_analysis"] = @ + 1]
    /\ prompt' = [prompt EXCEPT !["technical_analysis"] =
                                   technical_messages_with_prompt(tstate)]
    /\ \E response \in Responses("technical_analysis",
                                 invocations["technical_analysis"] + 1, TechnicalTexts) :
          /\ tstate' = ApplyUpdate(tstate, get_technical_analysis(response))
          /\ tpc' = technical_analysis_edge(tstate')
    /\ completed' = IF tpc' = "__end__"
                    THEN Append(completed, "technical_analysis") ELSE completed
    /\ UNCHANGED <<state, pc, fstate, fpc, toolRounds>>

TechnicalAnalysisRaises ==
    /\ tpc = "technical_analysis"
    /\ invocations' = [invocations EXCEPT !["technical_analysis"] = @ + 1]
    /\ prompt' = [prompt EXCEPT !["technical_analysis"] =
                                   technical_messages_with_prompt(tstate)]
    /\ tpc' = "raised"
    /\ UNCHANGED <<state, pc, fstate, fpc, tstate, toolRounds, completed>>

\* Mutant of TechnicalAnalysisTools: both subgraphs were handed one message
\* list, so the tool results also land in the fundamental loop's list.
TechnicalAnalysisTools_shared_messages ==
    /\ tpc = "technical_analysis_tools"
    /\ \E results \in ResultLists(tstate) :
          /\ tstate' = ApplyUpdate(tstate, ToolNode(tstate, results))
          /\ fstate' = ApplyUpdate(fstate, ToolNode(tstate, results))
    /\ toolRounds' = [toolRounds EXCEPT !["technical_analysis"] = @ + 1]
    /\ tpc' = "technical_analysis"
    /\ UNCHANGED <<state, pc, fpc, invocations, prompt, completed>>

TechnicalAnalysisTools ==
    /\ tpc = "technical_analysis_tools"
    /\ \E results \in ResultLists(tstate) :
          tstate' = ApplyUpdate(tstate, ToolNode(tstate, results))
    /\ toolRounds' = [toolRounds EXCEPT !["technical_analysis"] = @ + 1]
    /\ tpc' = "technical_analysis"
    /\ UNCHANGED <<state, pc, fstate, fpc, invocations, prompt, completed>>

TechnicalAnalysisToolsRaises ==
    /\ tpc = "technical_analysis_tools"
    /\ toolRounds' = [toolRounds EXCEPT !["technical_analysis"] = @ + 1]
    /\ tpc' = "raised"
    /\ UNCHANGED <<state, pc, fstate, fpc, tstate, invocations, prompt, completed>>

\* ------------------------------------------- stock_graph: fan-out, fan-in
\* Mutant of ContinueToAnalyses: the subgraphs are invoked with the whole
\* top-level state instead of {"stock_name": ...}.
ContinueToAnalyses_whole_state ==
    /\ pc = "continue_to_analyses"
    /\ fstate' = [stock_name |-> state["stock_name"], messages |-> state["messages"]]
    /\ tstate' = [stock_name |-> state["stock_name"], messages |-> state["messages"]]
    /\ fpc' = "fundamental_analysis"
    /\ tpc' = "technical_analysis"
    /\ pc' = "gather"
    /\ UNCHANGED <<state, invocations, toolRounds, prompt, completed>>

\* continue_to_analyses up to its await: both subgraphs are invoked with
\* {"stock_name": state["stock_name"]} and handed to asyncio.gather.
ContinueToAnalyses ==
    /\ pc = "continue_to_analyses"
    /\ IF "stock_name" \in DOMAIN state
       THEN /\ fstate' = [stock_name |-> state["stock_name"]]
            /\ tstate' = [stock_name |-> state["stock_name"]]
            /\ fpc' = "fundamental_analysis"
            /\ tpc' = "technical_analysis"
            /\ pc' = "gather"
       ELSE \* KeyError
            /\ pc' = "raised"
            /\ UNCHANGED <<fstate, tstate, fpc, tpc>>
    /\ UNCHANGED <<state, invocations, toolRounds, prompt, completed>>

\* Mutant of Gather: asyncio.wait(..., return_when=FIRST_COMPLETED); whatever
\* is there is merged.
Gather_first_completed ==
    /\ pc = "gather"
    /\ (fpc = "__end__" \/ tpc = "__end__")
    /\ state' = ApplyUpdate(state,
                   [fundamental_analysis |-> Get(fstate, "fundamental_analysis", <<>>),
                    technical_analysis |-> Get(tstate, "technical_analysis", <<>>),
                    messages |-> Messages(fstate) \o Messages(tstate)])
    /\ pc' = continue_to_analyses_edge
    /\ UNCHANGED <<fstate, fpc, tstate, tpc, invocations, toolRounds, prompt, completed>>

\* Mutant of Gather: asyncio.gather(..., return_exceptions=True); the results
\* that exist are merged.
Gather_return_exceptions ==
    /\ pc = "gather"
    /\ fpc \in {"__end__", "raised"}
    /\ tpc \in {"__end__", "raised"}
    /\ state' = ApplyUpdate(state,
                   [key \in ({"fundamental_analysis"} \cap DOMAIN fstate)
                             \cup ({"technical_analysis"} \cap DOMAIN tstate)
                             \cup {"messages"} |->
                       IF key = "messages" THEN Messages(fstate) \o Messages(tstate)
                       ELSE IF key = "fundamental_analysis" THEN fstate[key]
                       ELSE tstate[key]])
    /\ pc' = continue_to_analyses_edge
    /\ UNCHANGED <<fstate, fpc, tstate, tpc, invocations, toolRounds, prompt, completed>>

\* asyncio.gather returns once both subgraphs reached END;
\* continue_to_analyses merges and the edge leads to make_decision.
Gather ==
    /\ pc = "gather"
    /\ fpc = "__end__"
    /\ tpc = "__end__"
    /\ IF /\ {"fundamental_analysis", "messages"} \subseteq DOMAIN fstate
          /\ {"technical_analysis", "messages"} \subseteq DOMAIN tstate
       THEN /\ state' = ApplyUpdate(state, continue_to_analyses(fstate, tstate))
            /\ pc' = continue_to_analyses_edge
       ELSE \* KeyError
            /\ state' = state
            /\ pc' = "raised"
    /\ UNCHANGED <<fstate, fpc, tstate, tpc, invocations, toolRounds, prompt, completed>>

\* Mutant of GatherRaises: the join waits for both subgraphs to settle before
\* it re-raises.
GatherRaises_waits_for_both ==
    /\ pc = "gather"
    /\ (fpc = "raised" \/ tpc = "raised")
    /\ fpc \in {"__end__", "raised"}
    /\ tpc \in {"__end__", "raised"}
    /\ pc' = "raised"
    /\ UNCHANGED <<state, fstate, fpc, tstate, tpc, invocations, toolRounds, prompt, completed>>

\* asyncio.gather re-raises the first exception of either subgraph; the
\* other task is left alone.
GatherRaises ==
    /\ pc = "gather"
    /\ (fpc = "raised" \/ tpc = "raised")
    /\ pc' = "raised"
    /\ UNCHANGED <<state, fstate, fpc, tstate, tpc, invocations, toolRounds, prompt, completed>>

\* ------------------------------------------------ stock_graph: decision
\* reasoning_llm has no tools bound: its response carries no tool calls.
MakeDecision ==
    /\ pc = "make_decision"
    /\ invocations' = [invocations EXCEPT !["make_decision"] = @ + 1]
    /\ prompt' = [prompt EXCEPT !["make_decision"] =
                                   <<PromptMessage("user", decision_prompt(state))>>]
    /\ \E text \in DecisionTexts :
          state' = ApplyUpdate(state,
                      make_decision(AIMessage("make_decision",
                                              invocations["make_decision"] + 1, text, <<>>)))
    /\ pc' = make_decision_edge
    /\ UNCHANGED <<fstate, fpc, tstate, tpc, toolRounds, completed>>

MakeDecisionRaises ==
    /\ pc = "make_decision"
    /\ invocations' = [invocations EXCEPT !["make_decision"] = @ + 1]
    /\ prompt' = [prompt EXCEPT !["make_decision"] =
                                   <<PromptMessage("user", decision_prompt(state))>>]
    /\ pc' = "raised"
    /\ UNCHANGED <<state, fstate, fpc, tstate, tpc, toolRounds, completed>>

Next ==
    \/ StockName \/ StockNameRaises \/ StockNameTools \/ StockNameToolsRaises
    \/ FundamentalAnalysis \/ FundamentalAnalysisRaises
    \/ FundamentalAnalysisTools \/ FundamentalAnalysisToolsRaises
    \/ TechnicalAnalysis \/ TechnicalAnalysisRaises
    \/ TechnicalAnalysisTools \/ TechnicalAnalysisToolsRaises
    \/ ContinueToAnalyses \/ Gather \/ GatherRaises
    \/ MakeDecision \/ MakeDecisionRaises

Spec == Init /\ [][Next]_vars

\* A step in which no call raises.
Progress ==
    \/ StockName \/ StockNameTools
    \/ FundamentalAnalysis \/ FundamentalAnalysisTools
    \/ TechnicalAnalysis \/ TechnicalAnalysisTools
    \/ ContinueToAnalyses \/ Gather \/ GatherRaises
    \/ MakeDecision

\* The event loop runs a coroutine that can make progress, and a call that
\* does not raise returns: while some step is possible, a step is taken.
Fairness == WF_vars(Progress)

FairSpec == Spec /\ Fairness

\* make_decision called on a State of which any of stock_name,
\* fundamental_analysis, technical_analysis may be missing.
DecisionInit ==
    /\ \E keys \in SUBSET {"stock_name", "fundamental_analysis", "technical_analysis"} :
       \E user \in UserTexts, name \in NameTexts,
          fundamental \in FundamentalTexts, technical \in TechnicalTexts :
          state = [key \in keys \cup {"messages"} |->
                      IF key = "messages" THEN <<HumanMessage(user)>>
                      ELSE IF key = "stock_name" THEN name
                      ELSE IF key = "fundamental_analysis" THEN fundamental
                      ELSE technical]
    /\ pc = "make_decision"
    /\ fstate = EmptyDict
    /\ fpc = "idle"
    /\ tstate = EmptyDict
    /\ tpc = "idle"
    /\ invocations = [m \in Models |-> 0]
    /\ toolRounds = [l \in Loops |-> 0]
    /\ prompt = [m \in Models |-> <<>>]
    /\ completed = <<>>

DecisionNext == MakeDecision \/ MakeDecisionRaises

DecisionSpec == DecisionInit /\ [][DecisionNext]_vars

\* ================================================================ claims
\* The state, position and tool node of a loop; a loop's output field has
\* the name of the loop's model node.
LoopState(l) ==
    IF l = "stock_name" THEN state
    ELSE IF l = "fundamental_analysis" THEN fstate ELSE tstate

LoopPc(l) ==
    IF l = "stock_name" THEN pc
    ELSE IF l = "fundamental_analysis" THEN fpc ELSE tpc

LoopToolsNode(l) ==
    IF l = "stock_name" THEN "stock_name_tools"
    ELSE IF l = "fundamental_analysis" THEN "fundamental_analysis_tools"
    ELSE "technical_analysis_tools"

LoopDone(l) == l \in DOMAIN LoopState(l)

\* The responses and tool results loop l itself put in its message list.
Own(l) == SelectSeq(Messages(LoopState(l)), LAMBDA m : m.id.src = l)

RECURSIVE RequestedCalls(_)
RequestedCalls(msgs) ==
    IF msgs = <<>> THEN 0
    ELSE Len(Head(msgs).tool_calls) + RequestedCalls(Tail(msgs))

IsPrefix(s, t) == Len(s) <= Len(t) /\ SubSeq(t, 1, Len(s)) = s

\* ------------------------------------------------------------------- C1
C1_Done(l) ==
    LoopDone(l) =>
        LET own == Own(l)
            N == Len(SelectSeq(own, HasToolCalls))
        IN /\ toolRounds[l] = N
           /\ invocations[l] = N + 1
           /\ Len(own) = (N + 1) + RequestedCalls(own)
           /\ ~HasToolCalls(Last(own))

C1_Growth(l) ==
    LET before == Messages(LoopState(l))
        after == Messages(LoopState(l))'
    IN /\ Len(after) >= Len(before)
       /\ (invocations'[l] = invocations[l] + 1 /\ LoopPc(l)' # "raised")
             => Len(after) = Len(before) + 1
       /\ (toolRounds'[l] = toolRounds[l] + 1 /\ LoopPc(l)' # "raised")
             => Len(after) = Len(before) + Len(Last(before).tool_calls)

\* C1: in each tool loop, N tool-requesting responses followed by a tool-free
\* one make exactly N tool rounds and N+1 model invocations; the message
\* list never shrinks and grows by one entry per model response and one
\* entry per tool result.
C1_ToolLoopCounts ==
    [][\A l \in Loops : C1_Done(l)' /\ C1_Growth(l)]_vars

C1_Witness ==
    /\ LoopDone("technical_analysis")
    /\ toolRounds["technical_analysis"] = 2
    /\ invocations["technical_analysis"] = 3
    /\ RequestedCalls(Own("technical_analysis")) >= 3

\* ------------------------------------------------------------------- C2
\* C2: when the first response of a loop has no tool calls, the loop has
\* ended after that single model invocation, without any tool execution,
\* and its output field is that response's content.
C2_FirstResponseFinal ==
    \A l \in Loops :
        LET own == Own(l)
        IN (own # <<>> /\ ~HasToolCalls(own[1])) =>
              /\ Len(own) = 1
              /\ LoopDone(l)
              /\ LoopState(l)[l] = own[1].content
              /\ invocations[l] = 1
              /\ toolRounds[l] = 0
              /\ LoopPc(l) \notin {l, LoopToolsNode(l)}
              /\ l # "stock_name" => LoopPc(l) = "__end__"

C2_Witness ==
    /\ \A l \in Loops : LoopDone(l) /\ invocations[l] = 1 /\ toolRounds[l] = 0
    /\ fstate["fundamental_analysis"] = <<"Weak margins">>
    /\ tstate["technical_analysis"] = <<"Bullish breakout">>

\* ------------------------------------------------------------------- C3
C3_Step(l) ==
    LET st == LoopState(l)
        st2 == LoopState(l)'
        before == Messages(LoopState(l))
        after == Messages(LoopState(l))'
    IN \* set at most once
       /\ l \in DOMAIN st => (l \in DOMAIN st2 /\ st2[l] = st[l])
       \* set exactly in the step whose response has no tool calls
       /\ (l \notin DOMAIN st /\ l \in DOMAIN st2) =>
             /\ invocations'[l] = invocations[l] + 1
             /\ ~HasToolCalls(Last(after))
             /\ st2[l] = Last(after).content
       /\ (invocations'[l] = invocations[l] + 1 /\ LoopPc(l)' # "raised"
             /\ ~HasToolCalls(Last(after))) => (l \notin DOMAIN st /\ l \in DOMAIN st2)
       \* strict alternation while the field is unset
       /\ invocations'[l] = invocations[l] + 1 =>
             (l \notin DOMAIN st /\ invocations[l] = toolRounds[l])
       /\ toolRounds'[l] = toolRounds[l] + 1 =>
             (l \notin DOMAIN st /\ invocations[l] = toolRounds[l] + 1)
       \* a tool round answers every requested call
       /\ (toolRounds'[l] = toolRounds[l] + 1 /\ LoopPc(l)' # "raised") =>
             /\ Len(after) = Len(before) + Len(Last(before).tool_calls)
             /\ \A k \in 1..Len(Last(before).tool_calls) :
                   after[Len(before) + k].type = "tool"
             /\ LoopPc(l)' = l

\* C3: a loop's output field is set at most once, exactly in the step whose
\* model response has no tool calls; until then model calls and tool rounds
\* strictly alternate and a tool round answers every requested call.
C3_OutputSetOnce ==
    [][\A l \in Loops : C3_Step(l)]_vars

C3_Witness ==
    /\ LoopDone("fundamental_analysis")
    /\ toolRounds["fundamental_analysis"] = 2
    /\ LoopDone("stock_name")

\* ------------------------------------------------------------------- C4
\* C4: whichever analysis loop finishes first, the Aggregator leaves the
\* fundamental loop's complete message list followed by the technical
\* loop's complete message list behind the name-resolution history.
C4_MergeOrder ==
    pc = "make_decision" =>
        LET base == SelectSeq(state["messages"],
                              LAMBDA m : m.id.src \in {"user", "stock_name"})
        IN /\ state["messages"] = base \o Messages(fstate) \o Messages(tstate)
           /\ IsPrefix(base, state["messages"])
           /\ \A i \in 1..Len(Messages(fstate)) :
                 Messages(fstate)[i].id.src = "fundamental_analysis"
           /\ \A i \in 1..Len(Messages(tstate)) :
                 Messages(tstate)[i].id.src = "technical_analysis"

C4_Witness ==
    /\ pc = "make_decision"
    /\ completed = <<"technical_analysis", "fundamental_analysis">>
    /\ toolRounds["fundamental_analysis"] = 1
    /\ toolRounds["technical_analysis"] = 1

\* ------------------------------------------------------------------- C5
\* C5: whenever the decision model has been invoked, both analysis loops
\* have reached END and both analyses are in the top-level state.
C5_DecisionAfterBoth ==
    invocations["make_decision"] > 0 =>
        /\ fpc = "__end__"
        /\ tpc = "__end__"
        /\ Len(completed) = 2
        /\ {"fundamental_analysis", "technical_analysis"} \subseteq DOMAIN state
        /\ state["fundamental_analysis"] = fstate["fundamental_analysis"]
        /\ state["technical_analysis"] = tstate["technical_analysis"]

C5_Witness ==
    /\ invocations["make_decision"] = 1
    /\ pc = "__end__"
    /\ toolRounds["fundamental_analysis"] = 1

\* ------------------------------------------------------------------- C6
C6_Successors(node) ==
    IF node \in {"stock_name", "stock_name_tools"}
    THEN {"stock_name", "stock_name_tools", "continue_to_analyses", "raised"}
    ELSE IF node = "continue_to_analyses" THEN {"gather", "raised"}
    ELSE IF node = "gather" THEN {"make_decision", "raised"}
    ELSE IF node = "make_decision" THEN {"__end__", "raised"}
    ELSE {}

C6_Step ==
    /\ pc' # pc => pc' \in C6_Successors(pc)
    /\ pc \notin {"stock_name", "stock_name_tools"} =>
          /\ invocations'["stock_name"] = invocations["stock_name"]
          /\ toolRounds'["stock_name"] = toolRounds["stock_name"]
    /\ invocations'["make_decision"] # invocations["make_decision"] =>
          /\ pc = "make_decision"
          /\ invocations["make_decision"] = 0
          /\ invocations'["make_decision"] = 1
    /\ invocations["make_decision"] > 0 => toolRounds' = toolRounds
    /\ pc' = "__end__" =>
          /\ invocations'["make_decision"] = 1
          /\ {"stock_name", "fundamental_analysis", "technical_analysis", "decision"}
                \subseteq DOMAIN state'

\* C6: a run goes name-resolution loop -> Aggregator -> Decision Step ->
\* terminal; after the Aggregator is entered the name nodes never run
\* again, the Aggregator runs once, and the decision model is invoked once
\* with no tool execution after it.
C6_StageOrder ==
    [][C6_Step]_vars

C6_Witness ==
    /\ pc = "__end__"
    /\ toolRounds["stock_name"] = 1
    /\ toolRounds["technical_analysis"] = 1

\* ------------------------------------------------------------------- C7
\* C7: a run in which every model answers once and without tool calls ends
\* with all four fields set and exactly five messages: the user message and
\* the responses of name resolution, fundamental analysis, technical
\* analysis and decision.
C7_EndToEnd ==
    (pc = "__end__" /\ \A l \in Loops : toolRounds[l] = 0) =>
        LET m == state["messages"]
        IN /\ Len(m) = 5
           /\ m[1].type = "human"
           /\ \A i \in 2..5 : m[i].type = "ai" /\ m[i].tool_calls = <<>>
           /\ <<m[2].id.src, m[3].id.src, m[4].id.src, m[5].id.src>> =
                 <<"stock_name", "fundamental_analysis", "technical_analysis",
                   "make_decision">>
           /\ DOMAIN state = {"messages", "stock_name", "fundamental_analysis",
                              "technical_analysis", "decision"}
           /\ state["stock_name"] = m[2].content
           /\ state["fundamental_analysis"] = m[3].content
           /\ state["technical_analysis"] = m[4].content
           /\ state["decision"] = m[5].content

C7_Witness ==
    /\ pc = "__end__"
    /\ \A l \in Loops : toolRounds[l] = 0
    /\ state["stock_name"] = <<"Reliance Industries Ltd. (NSE:RELIANCE)">>
    /\ state["decision"] = <<"buy">>

\* ------------------------------------------------------------------- C8
C8_Failed ==
    (fpc = "raised" \/ tpc = "raised") =>
        /\ pc \in {"gather", "raised"}
        /\ pc = "gather" => ENABLED GatherRaises
        /\ DOMAIN state = {"messages", "stock_name"}
        /\ invocations["make_decision"] = 0

C8_NoRetry ==
    /\ \A l \in Loops :
          LoopPc(l) = "raised" =>
             /\ LoopPc(l)' = "raised"
             /\ invocations'[l] = invocations[l]
             /\ toolRounds'[l] = toolRounds[l]
             /\ LoopState(l)' = LoopState(l)
    /\ pc = "raised" => invocations'["make_decision"] = invocations["make_decision"]

\* C8: once an analysis loop has raised, the Aggregator can only fail:
\* neither analysis reaches the top-level state, the decision model is never
\* invoked, nothing that raised is called again, and the run never reaches END.
C8_AggregatorFailsWhole ==
    [][C8_Failed' /\ C8_NoRetry]_vars

C8_Witness ==
    /\ pc = "raised"
    /\ fpc = "__end__"
    /\ tpc = "raised"
    /\ toolRounds["technical_analysis"] = 1

C10_RawDecision ==
    pc = "__end__" =>
        /\ "decision" \in DOMAIN state
        /\ Last(state["messages"]).id.src = "make_decision"
        /\ state["decision"] = Last(state["messages"]).content
        /\ invocations["make_decision"] = 1

C10_Witness ==
    /\ pc = "__end__"
    /\ state["decision"] = <<"wait and see">>
    /\ Last(state["messages"]).content = <<"wait and see">>

\* ------------------------------------------------------------------ C11
Analyses == {"fundamental_analysis", "technical_analysis"}

Sibling(l) ==
    IF l = "fundamental_analysis" THEN "technical_analysis" ELSE "fundamental_analysis"

\* A step of loop l: its model node or its tool node ran.
LoopStepped(l) ==
    \/ invocations'[l] # invocations[l]
    \/ toolRounds'[l] # toolRounds[l]

C11_Step(l) ==
    LoopStepped(l) =>
        /\ LoopState(Sibling(l))' = LoopState(Sibling(l))
        /\ LoopPc(Sibling(l))' = LoopPc(Sibling(l))
        /\ prompt'[Sibling(l)] = prompt[Sibling(l)]
        /\ invocations'[Sibling(l)] = invocations[Sibling(l)]
        /\ toolRounds'[Sibling(l)] = toolRounds[Sibling(l)]
        /\ state' = state

C11_Own(l) ==
    LET st == LoopState(l)
    IN /\ \A i \in 1..Len(Messages(st)) : Messages(st)[i].id.src = l
       /\ \A i \in 1..Len(prompt[l]) : prompt[l][i].id.src \in {"prompt", l}
       /\ DOMAIN st \subseteq {"stock_name", "messages", l}
       /\ l \in DOMAIN st => st[l] = Last(Messages(st)).content

\* C11: no step of one analysis loop changes the other loop's state,
\* position, prompt or counters (nor the top-level state), and each loop's
\* message list, prompt and output hold only what that loop's own model
\* responses and tool results put there.
C11_DisjointLoops ==
    [][\A l \in Analyses : C11_Step(l) /\ C11_Own(l)']_vars

C11_Witness ==
    /\ fpc = "__end__"
    /\ tpc = "technical_analysis_tools"
    /\ toolRounds["fundamental_analysis"] = 1
    /\ Len(Messages(fstate)) >= 3
    /\ Len(Messages(tstate)) >= 1

\* ------------------------------------------------------------------ C12
\* Every tool-requesting response in msgs, except a last one still waiting
\* for its tool round, is directly followed by one result per call, in the
\* order of the calls.
Answered(msgs, waiting) ==
    \A i \in 1..Len(msgs) :
        HasToolCalls(msgs[i]) =>
            \/ (i = Len(msgs) /\ waiting)
            \/ /\ i + Len(msgs[i].tool_calls) <= Len(msgs)
               /\ \A k \in 1..Len(msgs[i].tool_calls) :
                     /\ msgs[i + k].type = "tool"
                     /\ msgs[i + k].name = msgs[i].tool_calls[k]
                     /\ msgs[i + k].tool_call_id = k
                     /\ msgs[i + k].id = MessageId(msgs[i].id.src, msgs[i].id.n, k)

\* C12: in every loop, each response that requests tool calls is followed
\* in the message list by the result of every one of its calls, in the order
\* of the calls, and every list handed to the model is complete in that way.
C12_ToolResultOrder ==
    \A l \in Loops :
        /\ Answered(Messages(LoopState(l)),
                    LoopPc(l) \in {LoopToolsNode(l), "raised"})
        /\ Answered(prompt[l], FALSE)

C12_Witness ==
    /\ invocations["fundamental_analysis"] = 2
    /\ Len(Messages(fstate)) >= 3
    /\ Messages(fstate)[1].tool_calls = <<"perplexity_research", "perplexity_reason">>
    /\ Messages(fstate)[2].name = "perplexity_research"
    /\ Messages(fstate)[3].name = "perplexity_reason"
    /\ Len(prompt["fundamental_analysis"]) = 5

\* ------------------------------------------------------------------ C13
\* Some model or tool call of the run raised.
Raised == pc = "raised" \/ fpc = "raised" \/ tpc = "raised"

Terminal ==
    /\ pc = "__end__"
    /\ {"stock_name", "fundamental_analysis", "technical_analysis", "decision"}
          \subseteq DOMAIN state

\* C13: under fair scheduling a run in which no call raises (every loop
\* getting a tool-free response after at most MaxRounds tool rounds)
\* eventually reaches END with stock_name, fundamental_analysis,
\* technical_analysis and decision set.
C13_EventuallyTerminal ==
    <>(Raised \/ Terminal)

C13_Witness ==
    /\ Terminal
    /\ toolRounds["stock_name"] = 1
    /\ toolRounds["fundamental_analysis"] = 1

\* ------------------------------------------------------------------ C14
\* The model step of loop l, answered by a response that requests tools.
ToolRequestStep(l) ==
    IF l = "stock_name" THEN StockName /\ pc' = "stock_name_tools"
    ELSE IF l = "fundamental_analysis"
    THEN FundamentalAnalysis /\ fpc' = "fundamental_analysis_tools"
    ELSE TechnicalAnalysis /\ tpc' = "technical_analysis_tools"

\* Every response loop l got so far requested tools.
OnlyToolRequests(l) ==
    \A i \in 1..Len(Own(l)) : Own(l)[i].type = "ai" => HasToolCalls(Own(l)[i])

C14_NoCap(l) ==
    \* however many rounds the loop has made, one more is accepted
    /\ (LoopPc(l) = l /\ Requested < MaxRounds) => ENABLED ToolRequestStep(l)
    \* and as long as every response requests tools the loop is not done
    /\ (LoopPc(l) # "idle" /\ OnlyToolRequests(l)) =>
          /\ ~LoopDone(l)
          /\ LoopPc(l) \in {l, LoopToolsNode(l), "raised"}

\* C14: the loops have no iteration cap of their own: whatever the number of
\* tool rounds made, a further tool-requesting response leads to a further
\* round (MaxRounds, the bound on the model's requests, is the only limit),
\* and a loop whose every response requests tools has not left its nodes and
\* has not set its output field.
C14_NoIterationCap ==
    \A l \in Loops : C14_NoCap(l)

C14_Witness ==
    /\ toolRounds["stock_name"] = MaxRounds
    /\ pc = "stock_name"
    /\ OnlyToolRequests("stock_name")
    /\ "stock_name" \notin DOMAIN state

\* ------------------------------------------------------------------ C15
\* The steps loop l can take: its model node or its tool node.
LoopStep(l) ==
    IF l = "fundamental_analysis"
    THEN FundamentalAnalysis \/ FundamentalAnalysisTools
    ELSE TechnicalAnalysis \/ TechnicalAnalysisTools

C15_Join(l) ==
    \* the join fails on the first exception, whatever the sibling is doing
    /\ (pc = "gather" /\ LoopPc(l) = "raised") => ENABLED GatherRaises
    \* the failing join leaves the sibling as it is
    /\ (pc = "gather" /\ pc' = "raised") =>
          /\ LoopPc(Sibling(l))' = LoopPc(Sibling(l))
          /\ LoopState(Sibling(l))' = LoopState(Sibling(l))
    \* and the sibling goes on after the Aggregator has failed
    /\ (pc = "raised" /\ LoopPc(l) = "raised"
          /\ LoopPc(Sibling(l)) \in {Sibling(l), LoopToolsNode(Sibling(l))}) =>
             ENABLED LoopStep(Sibling(l))

\* C15: when one analysis loop has raised, the join can fail at once, without
\* waiting for the sibling loop; failing does not stop the sibling, which can
\* still make model and tool calls after the Aggregator has failed.
C15_NoCancellation ==
    [][\A l \in Analyses : C15_Join(l)]_vars

C15_Witness ==
    /\ pc = "raised"
    /\ fpc = "raised"
    /\ invocations["fundamental_analysis"] = 1
    /\ tpc = "technical_analysis"
    /\ toolRounds["technical_analysis"] = 2

\* ------------------------------------------------------------------ C16
\* C16: every step leaves the messages of the top-level history in place and
\* in order: the history before a step is a prefix of the history after it.
C16_AppendOnly ==
    [][IsPrefix(state["messages"], state'["messages"])]_vars

C16_Witness ==
    /\ pc = "__end__"
    /\ toolRounds["stock_name"] = 1
    /\ toolRounds["technical_analysis"] = 1
    /\ Len(state["messages"]) >= 9

\* ------------------------------------------------------------------ C17
\* Where loop l goes when it leaves: END, or the Aggregator for name resolution.
LoopExit(l) == IF l = "stock_name" THEN "continue_to_analyses" ELSE "__end__"

\* Loop l has left its two nodes without raising.
LoopExited(l) ==
    IF l = "stock_name"
    THEN pc \in {"continue_to_analyses", "gather", "make_decision", "__end__"}
    ELSE LoopPc(l) = "__end__"

C17_Step(l) ==
    (invocations'[l] = invocations[l] + 1 /\ LoopPc(l)' # "raised") =>
        /\ LoopPc(l)' \in {LoopExit(l), LoopToolsNode(l)}
        /\ LoopPc(l)' = LoopExit(l) <=> (l \notin DOMAIN LoopState(l) /\ l \in DOMAIN LoopState(l)')
        /\ LoopPc(l)' = LoopToolsNode(l) <=> l \notin DOMAIN LoopState(l)'

\* C17: in each loop the node and the conditional edge agree: a model step
\* leaves the loop exactly when it set the output field and goes to the tool
\* node exactly when it left the field unset, so no loop has exited with its
\* output field unset.
C17_NodeAndEdgeAgree ==
    [][\A l \in Loops : C17_Step(l) /\ (LoopExited(l) => LoopDone(l))']_vars

C17_Witness ==
    /\ LoopExited("stock_name")
    /\ toolRounds["stock_name"] = 1
    /\ tpc = "technical_analysis_tools"
    /\ fpc = "__end__"

\* ------------------------------------------------------------------ C18
SystemPrompt(l) ==
    IF l = "fundamental_analysis" THEN FUNDAMENTAL_ANALYSIS_SYSTEM_PROMPT
    ELSE TECHNICAL_ANALYSIS_SYSTEM_PROMPT

C18_Loop(l) ==
    LoopPc(l) # "idle" =>
        LET st == LoopState(l)
            sent == prompt[l]
        IN \* the loop got the resolved name, and nothing else, to start from
           /\ "stock_name" \in DOMAIN state
           /\ st["stock_name"] = state["stock_name"]
           /\ st["stock_name"] = LoopState(Sibling(l))["stock_name"]
           /\ invocations[l] = 0 => (DOMAIN st = {"stock_name"} /\ sent = <<>>)
           \* what the model is sent
           /\ invocations[l] > 0 =>
                 /\ Len(sent) >= 2
                 /\ sent[1].type = "system"
                 /\ sent[1].content = SystemPrompt(l)
                 /\ sent[2].type = "user"
                 /\ sent[2].content = <<"The stock to analyze is ">> \o state["stock_name"]
                 /\ IsPrefix(SubSeq(sent, 3, Len(sent)), Messages(st))
                 /\ \A i \in 3..Len(sent) :
                       sent[i].id.src = l /\ sent[i].type \in {"ai", "tool"}
                 /\ \A i \in 1..Len(sent) :
                       sent[i].id.src \notin {"user", "stock_name"}

\* C18: each analysis loop starts from the resolved stock_name alone, the
\* same for both; what its model is sent is the system prompt, one user
\* message naming the stock, and the loop's own responses and tool results,
\* never the user's request or a name-resolution message; the Aggregator and
\* the Decision Step leave stock_name as it was.
C18_AnalysisInput ==
    [][ /\ \A l \in Analyses : C18_Loop(l)'
        /\ pc \in {"gather", "make_decision"} =>
              ("stock_name" \in DOMAIN state' /\ state'["stock_name"] = state["stock_name"])
      ]_vars

C18_Witness ==
    /\ pc = "__end__"
    /\ toolRounds["stock_name"] = 1
    /\ invocations["technical_analysis"] = 2
    /\ Len(prompt["technical_analysis"]) = 4
    /\ Len(state["messages"]) >= 8

====
